---- MODULE Spec2Model ----
(***************************************************************************)
(* A model of the corona coroutine engine: the thread-local switch mailbox *)
(* (SWITCH), the thread-local context stack (CONTEXTS), the entry          *)
(* trampoline, Coroutine::spawn, Coroutine::wait, run_child and the        *)
(* reactor that polls or drops the registered wakeups.                     *)
(*                                                                         *)
(* One OS thread runs everything.  Context 0 is the thread's own stack     *)
(* (user code of the test/main function and the reactor's loop); contexts  *)
(* 1..MaxCo are coroutines.  `running` is the context the CPU executes.    *)
(* An action is one stretch of code between two context transfers (or one  *)
(* user-level step of the running context), so the states TLC sees are     *)
(* exactly the points at which a transfer is in flight or user code is     *)
(* about to take its next step.                                            *)
(***************************************************************************)
EXTENDS Integers, Sequences, FiniteSets, TLC

\* Bounds of the model.
MaxCo == 2
MaxWaits == 2

Main == 0
Co == 1..MaxCo
Ctx == 0..MaxCo
RetVals == {42}
SendVals == {12}
Futs == {"ready", "oneshot", "timer"}

VARIABLES
    SWITCH,     \* the thread-local mailbox: Option<Switch>
    CONTEXTS,   \* the thread-local Vec<CoroutineContext>
    running,    \* the context that is executing
    xfer,       \* Transfer.context handed over by the transfer in flight
    pc,         \* where each context stands
    cont,       \* the point at which each context last transferred out
    myctx,      \* wait's local my_context of a suspended coroutine
    stack,      \* each coroutine's ProtectedFixedSizeStack
    frees,      \* how many times each stack was dropped
    freedOnIt,  \* the stack was dropped by code running on that very stack
    chan,       \* the oneshot result channel of each coroutine
    result,     \* the TaskResult built by catch_unwind
    slot,       \* wait's local `result: Option<Result<I, E>>`
    waitRet,    \* what the last wait returned to the task
    waitingOn,  \* the future the last wait was given
    waits,      \* number of waits each coroutine has called
    resumed,    \* number of transfers into the coroutine since its last wait
    fut,        \* the futures tasks wait on
    reactor,    \* the wakeups registered with the reactor (handle.spawn)
    alive,      \* the reactor core has not been dropped
    driven,     \* the reactor has been driven (polled, fired or dropped something)
    fatal,      \* a fatal (abort-class) fault, "none" while there is none
    child,      \* the coroutine each context is spawning or has just spawned
    flag,       \* the flag each task stores first (s1c, s2c of spawn_some)
    sentAfterWait, \* the one-shot was completed by a coroutine after a wait of its own
    ended,      \* how each task ended: the value it returned, or a fault
    spawnFailed, \* a spawn has returned Err(StackError)
    depthAtWait, \* the depth of the context stack at each context's latest call of wait
    buf,        \* the items a stream holds (the buffer of the mpsc channel)
    txAlive,    \* the stream can still grow: the channel's sender is alive
    rxAlive,    \* the channel's receiver is alive
    sink,       \* the producer's Option<ChannelSender>: "some" or "none"
    toSend,     \* the items the producer task has still to produce
    collected,  \* what the consumer's calls of next have returned so far
    iter,       \* the iterator's Option<S>: "some" or "none" (taken by next)
    source      \* where the stream comes from and the items it is to carry

vars == <<SWITCH, CONTEXTS, running, xfer, pc, cont, myctx, stack, frees,
          freedOnIt, chan, result, slot, waitRet, waitingOn, waits, resumed, fut,
          reactor, alive, driven, fatal, child, flag, sentAfterWait, ended,
          spawnFailed, depthAtWait, buf, txAlive, rxAlive, sink, toSend,
          collected, iter, source>>

\* The outcome of the stack allocation, the note of the depth at a wait and
\* the state of the stream helpers, which spawn, wait and the trampoline
\* never touch.
extVars == <<spawnFailed, depthAtWait, buf, txAlive, rxAlive, sink, toSend,
             collected, iter, source>>

\* ---------------------------------------------------------------- values

\* A Context value: the saved state of context `id`, taken at the point `at`
\* where it transferred out.  It can be resumed only while the context still
\* stands at that point.
AtEntry == <<"entry", 0, 0>>
AtSpawn(c) == <<"spawn", c, 0>>
AtWait(k) == <<"wait", k, 0>>
AtResume(c, k) == <<"resume", c, k>>
AtExit == <<"exit", 0, 0>>
NoCtx == [id |-> -1, at |-> AtEntry]
CtxVal(x, a) == [id |-> x, at |-> a]

NoSwitch == [kind |-> "None", stack |-> 0, co |-> 0, fut |-> "-"]
StartTaskAsResume(c) == [kind |-> "Resume", stack |-> 0, co |-> 0, fut |-> "-"]
StartTask(c) == [kind |-> "StartTask", stack |-> c, co |-> c, fut |-> "-"]
WaitFuture(x, f) == [kind |-> "WaitFuture", stack |-> 0, co |-> x, fut |-> f]
Resume == [kind |-> "Resume", stack |-> 0, co |-> 0, fut |-> "-"]
Cleanup == [kind |-> "Cleanup", stack |-> 0, co |-> 0, fut |-> "-"]
Destroy(s) == [kind |-> "Destroy", stack |-> s, co |-> 0, fut |-> "-"]

Pending == [tag |-> "Pending", val |-> 0]
Ok(v) == [tag |-> "Ok", val |-> v]
Err(e) == [tag |-> "Err", val |-> e]
Canceled == [tag |-> "Err", val |-> 1]
NoneVal == [tag |-> "None", val |-> 0]
Dropped == [tag |-> "Dropped", val |-> 0]

Finished(v) == [tag |-> "Finished", val |-> v]
Panicked == [tag |-> "Panicked", val |-> 0]
Open == [tag |-> "Open", val |-> 0]

NoRecord == [stack |-> 0, parent |-> NoCtx]

Base(x) == IF x = Main THEN "top" ELSE "user"
Last(s) == s[Len(s)]
Front(s) == SubSeq(s, 1, Len(s) - 1)

\* ---------------------------------------------------------------- Init

CoreInit ==
    /\ SWITCH = NoSwitch
    /\ CONTEXTS = <<>>
    /\ running = Main
    /\ xfer = NoCtx
    /\ pc = [x \in Ctx |-> IF x = Main THEN "top" ELSE "unborn"]
    /\ cont = [x \in Ctx |-> AtEntry]
    /\ myctx = [x \in Ctx |-> NoRecord]
    /\ stack = [c \in Ctx |-> "none"]
    /\ frees = [c \in Ctx |-> 0]
    /\ freedOnIt = [c \in Ctx |-> FALSE]
    /\ chan = [c \in Ctx |-> NoneVal]
    /\ result = [c \in Ctx |-> NoneVal]
    /\ slot = [x \in Ctx |-> NoneVal]
    /\ waitRet = [x \in Ctx |-> NoneVal]
    /\ waitingOn = [x \in Ctx |-> "-"]
    /\ waits = [x \in Ctx |-> 0]
    /\ resumed = [x \in Ctx |-> 0]
    /\ fut = [f \in Futs |-> IF f = "ready" THEN Ok(0) ELSE Pending]
    /\ reactor = {}
    /\ alive = TRUE
    /\ driven = FALSE
    /\ fatal = "none"
    /\ child = [x \in Ctx |-> 0]
    /\ flag = [c \in Ctx |-> FALSE]
    /\ sentAfterWait = FALSE
    /\ ended = [x \in Ctx |-> NoneVal]

\* No stream, no channel: nothing to produce, nothing to iterate.
NoStream ==
    /\ buf = <<>> /\ txAlive = FALSE /\ rxAlive = FALSE
    /\ sink = "none" /\ toSend = <<>> /\ collected = <<>>
    /\ iter = "none" /\ source = [kind |-> "none", items |-> <<>>]

NoDepth == depthAtWait = [x \in Ctx |-> 0]

Init == CoreInit /\ spawnFailed = FALSE /\ NoDepth /\ NoStream

\* ------------------------------------------------- the switch mailbox

\* Switch::put asserts that the slot is empty.
PutFault(s) == IF s.kind = "None" THEN "none" ELSE "Leftover switch instruction"

\* Switch::get: take() of the slot, expect() on the value.
GetFault(s) == IF s.kind # "None" THEN "none" ELSE "Missing switch instruction"

AfterGetPeek(s) == s

AfterGet(s) == NoSwitch

\* ------------------------------------------------- context transfer

Blocked == {"entry", "run_child", "wait", "dead"}

\* What goes wrong when `target` is resumed with message put first: the put
\* finds the slot occupied, the context value is not the target's current
\* suspension (resuming it is undefined), or the target has terminated.
ExchangeFault(target, pcNew) ==
    IF PutFault(SWITCH) # "none" THEN PutFault(SWITCH)
    ELSE IF ~(target.id \in Ctx) THEN "Resumed a stale context"
    ELSE IF target.at # cont[target.id] \/ ~(pcNew[target.id] \in Blocked)
         THEN "Resumed a stale context"
    ELSE IF pcNew[target.id] = "dead" THEN "Woken up after termination!"
    ELSE "none"

ExchangeNoBlock(x, at, target, m, pcNew) ==
    IF ExchangeFault(target, pcNew) # "none"
    THEN /\ fatal' = ExchangeFault(target, pcNew)
         /\ UNCHANGED <<SWITCH, running, xfer, pc, cont>>
    ELSE /\ SWITCH' = m
         /\ running' = target.id
         /\ xfer' = CtxVal(x, at)
         /\ cont' = [cont EXCEPT ![x] = at]
         /\ pc' = [pcNew EXCEPT ![x] = pc[x]]
         /\ fatal' = fatal

\* message.put(); context.resume(0): context x hands control to `target`.
Exchange(x, at, target, m, pcNew) ==
    IF ExchangeFault(target, pcNew) # "none"
    THEN /\ fatal' = ExchangeFault(target, pcNew)
         /\ UNCHANGED <<SWITCH, running, xfer, pc, cont>>
    ELSE /\ SWITCH' = m
         /\ running' = target.id
         /\ xfer' = CtxVal(x, at)
         /\ cont' = [cont EXCEPT ![x] = at]
         /\ pc' = pcNew
         /\ fatal' = fatal

\* A fatal fault: the thread stops where it is.
Halt(msg) ==
    /\ fatal' = msg
    /\ UNCHANGED <<SWITCH, CONTEXTS, running, xfer, pc, cont, myctx, stack,
                   frees, freedOnIt, chan, result, slot, waitRet, waitingOn, waits,
                   resumed, fut, reactor, alive, driven, child, flag,
                   sentAfterWait, ended>>

\* The running context x is in user code (a task, or the thread's own code).
InUser(x) == fatal = "none" /\ running = x /\ pc[x] = Base(x)

\* Every task stores its flag before anything else.
FlagDone(x) == x = Main \/ flag[x]

\* ------------------------------------------------- spawn and the trampoline

\* Coroutine ids are handed out in order.
NextCo == {c \in Co : pc[c] = "unborn" /\ \A d \in Co : pc[d] = "unborn" => c <= d}

SpawnDeferred(x, c) ==
    /\ InUser(x) /\ FlagDone(x)
    /\ c \in NextCo
    /\ chan' = [chan EXCEPT ![c] = Open]
    /\ stack' = [stack EXCEPT ![c] = "alive"]
    /\ child' = [child EXCEPT ![x] = c]
    /\ waitRet' = [waitRet EXCEPT ![x] = NoneVal]
    /\ pc' = [pc EXCEPT ![c] = "entry"]
    /\ UNCHANGED <<SWITCH, CONTEXTS, running, xfer, cont, myctx, frees,
                   freedOnIt, result, slot, waitingOn, waits, resumed, fut,
                   reactor, alive, driven, fatal, flag, sentAfterWait, ended>>

\* Coroutine::spawn up to the first transfer: the result channel, the stack,
\* the context on it, StartTask in the mailbox, resume of the new context.
Spawn(x, c) ==
    /\ InUser(x) /\ FlagDone(x)
    /\ c \in NextCo
    /\ chan' = [chan EXCEPT ![c] = Open]
    /\ stack' = [stack EXCEPT ![c] = "alive"]
    /\ child' = [child EXCEPT ![x] = c]
    /\ waitRet' = [waitRet EXCEPT ![x] = NoneVal]
    /\ Exchange(x, AtSpawn(c), CtxVal(c, AtEntry), StartTask(c),
                [pc EXCEPT ![c] = "entry", ![x] = "run_child"])
    /\ UNCHANGED <<CONTEXTS, myctx, frees, freedOnIt, result, slot, waitingOn,
                   waits, resumed, fut, reactor, alive, driven, flag,
                   sentAfterWait, ended>>

\* The record the perform closure pushes: the context that called us and our
\* own stack.
Record(s, parent) == [stack |-> s, parent |-> parent]

\* The entry trampoline up to the task: Switch::get, StartTask expected,
\* perform pushes the coroutine's record and calls the task.
Entry(c) ==
    /\ fatal = "none" /\ running = c /\ pc[c] = "entry"
    /\ IF GetFault(SWITCH) # "none" THEN Halt(GetFault(SWITCH))
       ELSE IF SWITCH.kind # "StartTask"
       THEN Halt("Invalid switch instruction on coroutine entry")
       ELSE /\ SWITCH' = AfterGet(SWITCH)
            /\ CONTEXTS' = Append(CONTEXTS, Record(SWITCH.stack, xfer))
            /\ xfer' = NoCtx
            /\ pc' = [pc EXCEPT ![c] = "user"]
            /\ UNCHANGED <<running, cont, myctx, stack, frees, freedOnIt,
                           chan, result, slot, waitRet, waitingOn, waits,
                           resumed, fut, reactor, alive, driven, fatal, child,
                           flag, sentAfterWait, ended>>

\* ------------------------------------------------- user code of a task

\* The task stores its flag (s2c.store(true, ..) of the spawn_some test).
Store(x) ==
    /\ InUser(x) /\ x \in Co
    /\ ~flag[x]
    /\ flag' = [flag EXCEPT ![x] = TRUE]
    /\ UNCHANGED <<SWITCH, CONTEXTS, running, xfer, pc, cont, myctx, stack,
                   frees, freedOnIt, chan, result, slot, waitRet, waitingOn,
                   waits, resumed, fut, reactor, alive, driven, fatal, child,
                   sentAfterWait, ended>>

SendOutcomes == {Ok(v) : v \in SendVals} \cup {Canceled}

\* User code completes the one-shot: sender.send(v), or the sender is dropped
\* and the receiver resolves to the Canceled error.
Send(x, o) ==
    /\ InUser(x) /\ FlagDone(x)
    /\ fut["oneshot"] = Pending
    /\ fut' = [fut EXCEPT !["oneshot"] = o]
    /\ sentAfterWait' = (x \in Co /\ waits[x] > 0)
    /\ waitRet' = [waitRet EXCEPT ![x] = NoneVal]
    /\ child' = [child EXCEPT ![x] = 0]
    /\ UNCHANGED <<SWITCH, CONTEXTS, running, xfer, pc, cont, myctx, stack,
                   frees, freedOnIt, chan, result, slot, waitingOn, waits,
                   resumed, reactor, alive, driven, fatal, flag, ended>>

\* ------------------------------------------------- Coroutine::wait

UsageFaultNever(cs) == "none"

\* CONTEXTS.pop().expect(..): no record, no coroutine to suspend.
UsageFault(cs) ==
    IF cs = <<>> THEN "Can't wait outside of a coroutine" ELSE "none"

TopRecordOldest(cs) == IF cs = <<>> THEN NoRecord ELSE Head(cs)

TopRecord(cs) == IF cs = <<>> THEN NoRecord ELSE Last(cs)
Popped(cs) == IF cs = <<>> THEN cs ELSE Front(cs)

\* wait up to its transfer out: pop my_context, an empty result slot, the
\* poll wrapper in a WaitFuture instruction, exchange with the parent context
\* (which moves parent_context out of my_context).
WaitCall(x, f) ==
    /\ InUser(x) /\ FlagDone(x)
    /\ IF UsageFault(CONTEXTS) # "none" THEN Halt(UsageFault(CONTEXTS))
       ELSE /\ CONTEXTS' = Popped(CONTEXTS)
            /\ myctx' = [myctx EXCEPT ![x] = Record(TopRecord(CONTEXTS).stack, NoCtx)]
            /\ slot' = [slot EXCEPT ![x] = NoneVal]
            /\ waitingOn' = [waitingOn EXCEPT ![x] = f]
            /\ waits' = [waits EXCEPT ![x] = @ + 1]
            /\ resumed' = [resumed EXCEPT ![x] = 0]
            /\ child' = [child EXCEPT ![x] = 0]
            /\ waitRet' = [waitRet EXCEPT ![x] = NoneVal]
            /\ Exchange(x, AtWait(waits[x] + 1), TopRecord(CONTEXTS).parent,
                        WaitFuture(x, f), [pc EXCEPT ![x] = "wait"])
            /\ UNCHANGED <<stack, frees, freedOnIt, chan, result, fut,
                           reactor, alive, driven, flag, sentAfterWait, ended>>

\* A task of the engine's own scenarios calls wait at most MaxWaits times.
Wait(x, f) == waits[x] < MaxWaits /\ WaitCall(x, f)

PushBackOnResumeOnly(cs, rec, reply) ==
    IF reply.kind = "Resume" THEN Append(cs, rec) ELSE cs

\* new_context is pushed whatever the reply instruction is.
PushBack(cs, rec, reply) == Append(cs, rec)

WaitResultSwapped(reply, slotv) ==
    IF reply.kind = "Resume"
    THEN IF slotv.tag = "None" THEN [tag |-> "Unwrap", val |-> 0]
         ELSE [tag |-> IF slotv.tag = "Ok" THEN "OkErr" ELSE "OkOk", val |-> slotv.val]
    ELSE IF reply.kind = "Cleanup" THEN Dropped
    ELSE [tag |-> "Invalid", val |-> 0]

WaitResultReadsSlot(reply, slotv) ==
    IF reply.kind \in {"Resume", "Cleanup"}
    THEN IF slotv.tag = "None" THEN [tag |-> "Unwrap", val |-> 0]
         ELSE [tag |-> IF slotv.tag = "Ok" THEN "OkOk" ELSE "OkErr", val |-> slotv.val]
    ELSE [tag |-> "Invalid", val |-> 0]

\* What wait returns: Resume gives Ok(result.unwrap()), Cleanup gives
\* Err(Dropped) without a look at the slot, anything else is unreachable!().
WaitResult(reply, slotv) ==
    IF reply.kind = "Resume"
    THEN IF slotv.tag = "None" THEN [tag |-> "Unwrap", val |-> 0]
         ELSE [tag |-> IF slotv.tag = "Ok" THEN "OkOk" ELSE "OkErr", val |-> slotv.val]
    ELSE IF reply.kind = "Cleanup" THEN Dropped
    ELSE [tag |-> "Invalid", val |-> 0]

CatchUnwindLeaks(panicked, v) == Finished(v)

\* panic::catch_unwind(task): the task's value, or the fault it raised.
CatchUnwind(panicked, v) == IF panicked THEN Panicked ELSE Finished(v)

NewContextKeepsParent(my, context) == Record(my.stack, my.parent)

\* new_context: the stack of my_context, and as parent the context the
\* exchange returned, which is the context that resumed the coroutine.
NewContext(my, context) == Record(my.stack, context)

\* wait after it is transferred back into: the reply instruction, the new
\* record with the resumer as parent, the result (which moves out of the
\* slot).  An unwrap of an empty slot is a fault of the task, caught by the
\* trampoline's catch_unwind.
WaitReturn(x) ==
    /\ fatal = "none" /\ running = x /\ pc[x] = "wait"
    /\ IF GetFault(SWITCH) # "none" THEN Halt(GetFault(SWITCH))
       ELSE IF WaitResult(SWITCH, slot[x]).tag = "Invalid"
       THEN Halt("Invalid instruction on wakeup")
       ELSE /\ SWITCH' = AfterGet(SWITCH)
            /\ CONTEXTS' = PushBack(CONTEXTS, NewContext(myctx[x], xfer), SWITCH)
            /\ xfer' = NoCtx
            /\ myctx' = [myctx EXCEPT ![x] = NoRecord]
            /\ slot' = [slot EXCEPT ![x] = NoneVal]
            /\ waitingOn' = [waitingOn EXCEPT ![x] = "-"]
            /\ IF WaitResult(SWITCH, slot[x]).tag = "Unwrap"
               THEN /\ pc' = [pc EXCEPT ![x] = "caught"]
                    /\ result' = [result EXCEPT ![x] = CatchUnwind(TRUE, 0)]
                    /\ ended' = [ended EXCEPT ![x] = [tag |-> "Faulted", val |-> 0]]
                    /\ UNCHANGED waitRet
               ELSE /\ pc' = [pc EXCEPT ![x] = "user"]
                    /\ waitRet' = [waitRet EXCEPT ![x] = WaitResult(SWITCH, slot[x])]
                    /\ UNCHANGED <<result, ended>>
            /\ UNCHANGED <<running, cont, stack, frees, freedOnIt, chan,
                           waits, resumed, fut, reactor, alive, driven, fatal,
                           child, flag, sentAfterWait>>

\* ------------------------------------------------- the end of a task

\* What a task returns: a value of its own, or the value its last wait gave.
TaskVals(x) ==
    RetVals \cup (IF waitRet[x].tag = "OkOk" /\ waitRet[x].val \in SendVals
                  THEN {waitRet[x].val} ELSE {})

\* The task returns v.
Return(x, v) ==
    /\ InUser(x) /\ x \in Co /\ FlagDone(x)
    /\ v \in TaskVals(x)
    /\ result' = [result EXCEPT ![x] = CatchUnwind(FALSE, v)]
    /\ ended' = [ended EXCEPT ![x] = [tag |-> "Returned", val |-> v]]
    /\ pc' = [pc EXCEPT ![x] = "caught"]
    /\ waitRet' = [waitRet EXCEPT ![x] = NoneVal]
    /\ child' = [child EXCEPT ![x] = 0]
    /\ UNCHANGED <<SWITCH, CONTEXTS, running, xfer, cont, myctx, stack, frees,
                   freedOnIt, chan, slot, waitingOn, waits, resumed, fut,
                   reactor, alive, driven, fatal, flag, sentAfterWait>>

\* The task raises a fault (panic!("Test")).
Panic(x) ==
    /\ InUser(x) /\ x \in Co /\ FlagDone(x)
    /\ result' = [result EXCEPT ![x] = CatchUnwind(TRUE, 0)]
    /\ ended' = [ended EXCEPT ![x] = [tag |-> "Faulted", val |-> 0]]
    /\ pc' = [pc EXCEPT ![x] = "caught"]
    /\ waitRet' = [waitRet EXCEPT ![x] = NoneVal]
    /\ child' = [child EXCEPT ![x] = 0]
    /\ UNCHANGED <<SWITCH, CONTEXTS, running, xfer, cont, myctx, stack, frees,
                   freedOnIt, chan, slot, waitingOn, waits, resumed, fut,
                   reactor, alive, driven, fatal, flag, sentAfterWait>>

\* The channel after its sender was dropped without a send.
SenderGone == [tag |-> "SenderGone", val |-> 0]

SendResultDropsSender(ch, r) == SenderGone

SendResultNever(ch, r) == ch

\* sender.send(result): the value is stored while the channel is open; an
\* error (the receiver is gone) is dropped.
SendResult(ch, r) == IF ch.tag = "Open" THEN r ELSE ch

CompleteUnwrapsSend(x) ==
    /\ fatal = "none" /\ running = x /\ pc[x] = "caught"
    /\ IF chan[x] # Open THEN Halt("send of the result failed")
       ELSE /\ chan' = [chan EXCEPT ![x] = SendResult(chan[x], result[x])]
            /\ result' = [result EXCEPT ![x] = NoneVal]
            /\ pc' = [pc EXCEPT ![x] = "sent"]
            /\ UNCHANGED <<SWITCH, CONTEXTS, running, xfer, cont, myctx, stack,
                           frees, freedOnIt, slot, waitRet, waitingOn, waits,
                           resumed, fut, reactor, alive, driven, fatal, child,
                           flag, sentAfterWait, ended>>

\* drop(sender.send(result)): the result moves into the channel.
Complete(x) ==
    /\ fatal = "none" /\ running = x /\ pc[x] = "caught"
    /\ chan' = [chan EXCEPT ![x] = SendResult(chan[x], result[x])]
    /\ result' = [result EXCEPT ![x] = NoneVal]
    /\ pc' = [pc EXCEPT ![x] = "sent"]
    /\ UNCHANGED <<SWITCH, CONTEXTS, running, xfer, cont, myctx, stack, frees,
                   freedOnIt, slot, waitRet, waitingOn, waits, resumed, fut,
                   reactor, alive, driven, fatal, child, flag, sentAfterWait, ended>>

ExitKeepsRecord(cs) == cs

\* CONTEXTS.pop() at the end of perform.
ExitPop(cs) == Popped(cs)

ExitEarly(x) ==
    /\ fatal = "none" /\ running = x /\ pc[x] = "caught"
    /\ IF CONTEXTS = <<>> THEN Halt("unwrap of an empty context stack")
       ELSE /\ CONTEXTS' = ExitPop(CONTEXTS)
            /\ Exchange(x, AtExit, Last(CONTEXTS).parent,
                        Destroy(Last(CONTEXTS).stack), [pc EXCEPT ![x] = "dead"])
            /\ UNCHANGED <<myctx, stack, frees, freedOnIt, chan, result, slot,
                           waitRet, waitingOn, waits, resumed, fut, reactor,
                           alive, driven, child, flag, sentAfterWait, ended>>

\* The rest of perform and of the trampoline: pop the record, Destroy with
\* the stack in the mailbox, the final transfer to the parent context.
Exit(x) ==
    /\ fatal = "none" /\ running = x /\ pc[x] = "sent"
    /\ IF CONTEXTS = <<>> THEN Halt("unwrap of an empty context stack")
       ELSE /\ CONTEXTS' = ExitPop(CONTEXTS)
            /\ Exchange(x, AtExit, Last(CONTEXTS).parent,
                        Destroy(Last(CONTEXTS).stack), [pc EXCEPT ![x] = "dead"])
            /\ UNCHANGED <<myctx, stack, frees, freedOnIt, chan, result, slot,
                           waitRet, waitingOn, waits, resumed, fut, reactor,
                           alive, driven, child, flag, sentAfterWait, ended>>

\* ------------------------------------------------- Coroutine::reactor

\* Coroutine::reactor: the handle of the last record of the context stack
\* (a record's handle belongs to the coroutine whose stack the record
\* holds), or the fault of a call outside of a coroutine.
ReactorHandle(cs) ==
    IF cs = <<>>
    THEN [fault |-> "Can't get reactor handle outside of a coroutine", handle |-> 0]
    ELSE [fault |-> "none", handle |-> TopRecord(cs).stack]

\* ------------------------------------------------- run_child

\* The wakeup handed to the reactor: the poll wrapper (the future and the
\* slot of coroutine c) and the context to resume.
WaitTask(c, f, context) == [co |-> c, fut |-> f, context |-> context]

RegisterForgets(r, t) == r

RegisterTwice(r, t) == r \cup {t, [t EXCEPT !.fut = "ready"]}

RegisterFirstOnly(r, t) == IF r = {} THEN {t} ELSE r

\* handle.spawn(wakeup): the reactor owns the wakeup from here on.
Register(r, t) == r \cup {t}

DropStackLeaks(st, s) == st

\* drop(stack)
DropStack(st, s) == IF s \in Co THEN [st EXCEPT ![s] = "freed"] ELSE st

\* run_child after control is back: Destroy frees the stack the message
\* carries, a wait request is registered with the reactor together with the
\* context to resume, anything else is unreachable!().
RunChildReturn(x) ==
    /\ fatal = "none" /\ running = x /\ pc[x] = "run_child"
    /\ IF GetFault(SWITCH) # "none" THEN Halt(GetFault(SWITCH))
       ELSE IF ~(SWITCH.kind \in {"Destroy", "WaitFuture"})
       THEN Halt("Invalid switch instruction when switching out")
       ELSE /\ SWITCH' = AfterGet(SWITCH)
            /\ xfer' = NoCtx
            /\ pc' = [pc EXCEPT ![x] = Base(x)]
            /\ IF SWITCH.kind = "Destroy"
               THEN /\ stack' = DropStack(stack, SWITCH.stack)
                    /\ frees' = [c \in Ctx |-> IF c = SWITCH.stack THEN frees[c] + 1
                                               ELSE frees[c]]
                    /\ freedOnIt' = [c \in Ctx |-> IF c = SWITCH.stack THEN x = c
                                                   ELSE freedOnIt[c]]
                    /\ UNCHANGED reactor
               ELSE /\ reactor' = Register(reactor,
                                           WaitTask(SWITCH.co, SWITCH.fut, xfer))
                    /\ UNCHANGED <<stack, frees, freedOnIt>>
            /\ UNCHANGED <<CONTEXTS, running, cont, myctx, chan, result, slot,
                           waitRet, waitingOn, waits, resumed, fut, alive,
                           driven, fatal, child, flag, sentAfterWait, ended>>

\* ------------------------------------------------- the reactor

\* The reactor is driven from the thread's own code (Core::run).
AtTop == InUser(Main)

\* A timer of the reactor fires.
TimerFire ==
    /\ AtTop /\ alive
    /\ fut["timer"] = Pending
    /\ fut' = [fut EXCEPT !["timer"] = Ok(0)]
    /\ driven' = TRUE
    /\ child' = [child EXCEPT ![Main] = 0]
    /\ UNCHANGED <<SWITCH, CONTEXTS, running, xfer, pc, cont, myctx, stack,
                   frees, freedOnIt, chan, result, slot, waitRet, waitingOn,
                   waits, resumed, reactor, alive, fatal, flag, sentAfterWait, ended>>

PollWriteErr(o) == Err(o.val)

\* The poll wrapper: Ready(ok) and Err(err) of the future become the
\* Result written into the slot.
PollWrite(o) == IF o.tag = "Ok" THEN Ok(o.val) ELSE Err(o.val)

PollSpurious(t) ==
    /\ AtTop /\ alive
    /\ t \in reactor
    /\ IF stack[t.co] # "alive" THEN Halt("Wrote the result slot of a freed stack")
       ELSE /\ slot' = [slot EXCEPT ![t.co] = PollWrite(fut[t.fut])]
            /\ reactor' = reactor \ {t}
            /\ driven' = TRUE
            /\ child' = [child EXCEPT ![Main] = 0]
            /\ resumed' = [resumed EXCEPT ![t.co] = @ + 1]
            /\ Exchange(Main, AtResume(t.co, waits[t.co]), t.context, Resume,
                        [pc EXCEPT ![Main] = "run_child"])
            /\ UNCHANGED <<CONTEXTS, myctx, stack, frees, freedOnIt, chan,
                           result, waitRet, waitingOn, waits, fut, alive,
                           flag, sentAfterWait, ended>>

PollKeepsWakeup(t) ==
    /\ AtTop /\ alive
    /\ t \in reactor
    /\ fut[t.fut] # Pending
    /\ IF stack[t.co] # "alive" THEN Halt("Wrote the result slot of a freed stack")
       ELSE /\ slot' = [slot EXCEPT ![t.co] = PollWrite(fut[t.fut])]
            /\ reactor' = reactor
            /\ driven' = TRUE
            /\ child' = [child EXCEPT ![Main] = 0]
            /\ resumed' = [resumed EXCEPT ![t.co] = @ + 1]
            /\ Exchange(Main, AtResume(t.co, waits[t.co]), t.context, Resume,
                        [pc EXCEPT ![Main] = "run_child"])
            /\ UNCHANGED <<CONTEXTS, myctx, stack, frees, freedOnIt, chan,
                           result, waitRet, waitingOn, waits, fut, alive,
                           flag, sentAfterWait, ended>>

\* The reactor polls a registered wakeup whose future has resolved: the poll
\* wrapper writes the result slot on the coroutine's stack, then
\* run_child(context, Resume).  (A poll of an unresolved future reports
\* NotReady and changes nothing.)
Poll(t) ==
    /\ AtTop /\ alive
    /\ t \in reactor
    /\ fut[t.fut] # Pending
    /\ IF stack[t.co] # "alive" THEN Halt("Wrote the result slot of a freed stack")
       ELSE /\ slot' = [slot EXCEPT ![t.co] = PollWrite(fut[t.fut])]
            /\ reactor' = reactor \ {t}
            /\ driven' = TRUE
            /\ child' = [child EXCEPT ![Main] = 0]
            /\ resumed' = [resumed EXCEPT ![t.co] = @ + 1]
            /\ Exchange(Main, AtResume(t.co, waits[t.co]), t.context, Resume,
                        [pc EXCEPT ![Main] = "run_child"])
            /\ UNCHANGED <<CONTEXTS, myctx, stack, frees, freedOnIt, chan,
                           result, waitRet, waitingOn, waits, fut, alive,
                           flag, sentAfterWait, ended>>

\* The reactor core is dropped.
Shutdown ==
    /\ AtTop /\ alive
    /\ alive' = FALSE
    /\ driven' = TRUE
    /\ child' = [child EXCEPT ![Main] = 0]
    /\ UNCHANGED <<SWITCH, CONTEXTS, running, xfer, pc, cont, myctx, stack,
                   frees, freedOnIt, chan, result, slot, waitRet, waitingOn,
                   waits, resumed, fut, reactor, fatal, flag, sentAfterWait, ended>>

\* A dead reactor drops a wakeup it holds: the drop resumes the suspended
\* coroutine with Cleanup, by run_child(context, Cleanup).
DropTask(t) ==
    /\ AtTop /\ ~alive
    /\ t \in reactor
    /\ reactor' = reactor \ {t}
    /\ child' = [child EXCEPT ![Main] = 0]
    /\ resumed' = [resumed EXCEPT ![t.co] = @ + 1]
    /\ Exchange(Main, AtResume(t.co, waits[t.co]), t.context, Cleanup,
                [pc EXCEPT ![Main] = "run_child"])
    /\ UNCHANGED <<CONTEXTS, myctx, stack, frees, freedOnIt, chan, result,
                   slot, waitRet, waitingOn, waits, fut, alive, driven, flag,
                   sentAfterWait, ended>>

\* ------------------------------------------------- the specification

Next ==
    \/ \E x \in Ctx, c \in Co : Spawn(x, c) /\ UNCHANGED extVars
    \/ \E c \in Co : Entry(c) /\ UNCHANGED extVars
    \/ \E x \in Co : Store(x) /\ UNCHANGED extVars
    \/ \E x \in Ctx, o \in SendOutcomes : Send(x, o) /\ UNCHANGED extVars
    \/ \E x \in Ctx, f \in Futs : Wait(x, f) /\ UNCHANGED extVars
    \/ \E x \in Co : WaitReturn(x) /\ UNCHANGED extVars
    \/ \E x \in Co, v \in RetVals \cup SendVals : Return(x, v) /\ UNCHANGED extVars
    \/ \E x \in Co : Panic(x) /\ UNCHANGED extVars
    \/ \E x \in Co : Complete(x) /\ UNCHANGED extVars
    \/ \E x \in Co : Exit(x) /\ UNCHANGED extVars
    \/ \E x \in Ctx : RunChildReturn(x) /\ UNCHANGED extVars
    \/ TimerFire /\ UNCHANGED extVars
    \/ \E t \in reactor : Poll(t) /\ UNCHANGED extVars
    \/ Shutdown /\ UNCHANGED extVars
    \/ \E t \in reactor : DropTask(t) /\ UNCHANGED extVars

Spec == Init /\ [][Next]_vars

\* ------------------------------------------------- progress

\* A step that is not a choice of the thread's own code: code between two
\* transfers runs on, and a task, once entered or resumed, goes on until it
\* waits, returns or raises a fault.
Forced == Next /\ ~InUser(Main)

\* The reactor, while it is driven, polls a wakeup whose future has resolved.
Polls == \E t \in reactor : Poll(t) /\ UNCHANGED extVars

\* The engine under a reactor that is driven for as long as a wakeup can be
\* polled (Core::run), with code that does not stop between its steps.
LiveSpec == Init /\ [][Next]_vars /\ WF_vars(Forced) /\ WF_vars(Polls)

\* ------------------------------------------------- failed allocation, dropped handles

coreVars == <<SWITCH, CONTEXTS, running, xfer, pc, cont, myctx, stack, frees,
              freedOnIt, chan, result, slot, waitRet, waitingOn, waits, resumed,
              fut, reactor, alive, driven, fatal, child, flag, sentAfterWait,
              ended>>

streamVars == <<buf, txAlive, rxAlive, sink, toSend, collected, iter, source>>

SpawnStackErrorStarts(x) ==
    /\ \E c \in Co : Spawn(x, c)
    /\ spawnFailed' = TRUE
    /\ UNCHANGED <<depthAtWait, streamVars>>

\* Coroutine::spawn when ProtectedFixedSizeStack::new fails: the `?` returns
\* Err(StackError) before a context is made; the channel just created is
\* dropped with it.
SpawnStackError(x) ==
    /\ InUser(x) /\ FlagDone(x)
    /\ spawnFailed' = TRUE
    /\ UNCHANGED coreVars
    /\ UNCHANGED <<depthAtWait, streamVars>>

\* The channel after its receiver (the join handle) was dropped.
Closed == [tag |-> "Closed", val |-> 0]

\* The spawner drops the join handle of the coroutine it has just spawned
\* (the second spawn of future_wait): the receiver and whatever the channel
\* holds are gone.
DropHandle(x) ==
    /\ InUser(x) /\ child[x] # 0
    /\ chan' = [chan EXCEPT ![child[x]] = Closed]
    /\ child' = [child EXCEPT ![x] = 0]
    /\ UNCHANGED <<SWITCH, CONTEXTS, running, xfer, pc, cont, myctx, stack,
                   frees, freedOnIt, result, slot, waitRet, waitingOn, waits,
                   resumed, fut, reactor, alive, driven, fatal, flag,
                   sentAfterWait, ended>>
    /\ UNCHANGED extVars

HandleNext ==
    \/ Next
    \/ \E x \in Ctx : SpawnStackError(x)
    \/ \E x \in Ctx : DropHandle(x)

\* The engine with spawns that fail to allocate and join handles that are
\* dropped.
HandleSpec == Init /\ [][HandleNext]_vars

\* ------------------------------------------------- the depth at a wait

\* The depth of the context stack when context x calls wait, before the pop.
NoteDepth(x) == depthAtWait' = [depthAtWait EXCEPT ![x] = Len(CONTEXTS)]

DepthNext ==
    \/ \E x \in Ctx, c \in Co : Spawn(x, c) /\ UNCHANGED extVars
    \/ \E c \in Co : Entry(c) /\ UNCHANGED extVars
    \/ \E x \in Co : Store(x) /\ UNCHANGED extVars
    \/ \E x \in Ctx, o \in SendOutcomes : Send(x, o) /\ UNCHANGED extVars
    \/ \E x \in Ctx, f \in Futs :
          /\ Wait(x, f) /\ NoteDepth(x)
          /\ UNCHANGED <<spawnFailed, streamVars>>
    \/ \E x \in Co : WaitReturn(x) /\ UNCHANGED extVars
    \/ \E x \in Co, v \in RetVals \cup SendVals : Return(x, v) /\ UNCHANGED extVars
    \/ \E x \in Co : Panic(x) /\ UNCHANGED extVars
    \/ \E x \in Co : Complete(x) /\ UNCHANGED extVars
    \/ \E x \in Co : Exit(x) /\ UNCHANGED extVars
    \/ \E x \in Ctx : RunChildReturn(x) /\ UNCHANGED extVars
    \/ TimerFire /\ UNCHANGED extVars
    \/ \E t \in reactor : Poll(t) /\ UNCHANGED extVars
    \/ Shutdown /\ UNCHANGED extVars
    \/ \E t \in reactor : DropTask(t) /\ UNCHANGED extVars

\* The engine, with the depth of the context stack noted at every call of
\* wait.
DepthSpec == Init /\ [][DepthNext]_vars

\* ------------------------------------------------- streams and producers

\* The producer and the consumer of the producer test, in spawn order.
Producer == 1
Consumer == 2

\* mpsc::channel(1)
Cap == 1

\* The longest stream that is iterated.
MaxStream == 3

\* The items of the producer test, and what a stream may carry.
Produced == <<42, 12>>
StreamItems == {Ok(1), Err(7)}

OkAll(s) == [i \in 1..Len(s) |-> Ok(s[i])]

\* The streams a run starts with: the mpsc channel of the producer test, or
\* a finite stream of items and errors (Interval.take(3).map(..) is one).
StreamInputs ==
    {[kind |-> "channel", items |-> OkAll(Produced)]}
      \cup {[kind |-> "list", items |-> s] :
               s \in UNION {[1..n -> StreamItems] : n \in 0..MaxStream}}

StreamInit ==
    /\ CoreInit /\ spawnFailed = FALSE /\ NoDepth
    /\ \E s \in StreamInputs :
          /\ source = s
          /\ buf = (IF s.kind = "channel" THEN <<>> ELSE s.items)
          /\ txAlive = (s.kind = "channel")
          /\ sink = (IF s.kind = "channel" THEN "some" ELSE "none")
          /\ toSend = (IF s.kind = "channel" THEN Produced ELSE <<>>)
    /\ rxAlive = TRUE /\ iter = "some" /\ collected = <<>>

ChannelFullNever(b) == FALSE

\* The bounded channel takes no item while its buffer holds Cap of them.
ChannelFull(b) == Len(b) >= Cap

\* The Send future of sink.send(item): an error once the receiver is gone,
\* not ready while the channel is full, else the item is in and the sink is
\* handed back.
SendPoll(b, rx) ==
    IF ~rx THEN Err(0) ELSE IF ChannelFull(b) THEN Pending ELSE Ok(0)

\* stream.into_future(): the first item or error, the end of the stream
\* (Ok with no item) once nothing more can come, else not ready.
IntoFuture(b, tx) ==
    IF b # <<>> THEN Head(b) ELSE IF ~tx THEN Ok(0) ELSE Pending

\* StreamIterator::next on what the wait gave: None at the end of the
\* stream, Some(Ok(item)), Some(Err(e)).
NextResult(r) ==
    IF r.tag = "OkOk" /\ r.val = 0 THEN [tag |-> "None", val |-> 0]
    ELSE IF r.tag = "OkOk" THEN [tag |-> "SomeOk", val |-> r.val]
    ELSE [tag |-> "SomeErr", val |-> r.val]

PutBackOnOk(r) == IF r.tag = "OkErr" THEN "none" ELSE "some"

\* self.stream = Some(stream): the stream goes back whatever the result.
PutBack(r) == "some"

ProduceUnwrapsSink(x) ==
    /\ InUser(x) /\ FlagDone(x) /\ x = Producer
    /\ toSend # <<>>
    /\ IF sink = "none"
       THEN /\ Panic(x)
            /\ UNCHANGED <<spawnFailed, depthAtWait, buf, txAlive, rxAlive, sink,
                           toSend, collected, iter, source>>
       ELSE /\ sink' = "none"
            /\ WaitCall(x, "send")
            /\ UNCHANGED <<spawnFailed, depthAtWait, buf, txAlive, rxAlive,
                           toSend, collected, iter, source>>

\* Producer::produce: without a sink nothing happens; else the sink is taken
\* and the Send future waited for.
Produce(x) ==
    /\ InUser(x) /\ FlagDone(x) /\ x = Producer
    /\ toSend # <<>>
    /\ IF sink = "none"
       THEN /\ toSend' = Tail(toSend)
            /\ UNCHANGED coreVars
            /\ UNCHANGED <<spawnFailed, depthAtWait, buf, txAlive, rxAlive, sink, collected,
                           iter, source>>
       ELSE /\ sink' = "none"
            /\ WaitCall(x, "send")
            /\ UNCHANGED <<spawnFailed, depthAtWait, buf, txAlive, rxAlive, toSend,
                           collected, iter, source>>

\* The iteration has ended: the last call of next returned None.
IterEnded == collected # <<>> /\ Last(collected).tag = "None"

\* StreamIterator::next up to the wait: the stream is taken out of the
\* iterator (unwrap: a fault of the task when it is not there) and its
\* into_future waited for.  The for loop calls next until it gets None.
NextCall(x) ==
    /\ InUser(x) /\ FlagDone(x) /\ x = Consumer
    /\ ~IterEnded
    /\ IF iter = "none"
       THEN /\ Panic(x)
            /\ rxAlive' = FALSE
            /\ UNCHANGED <<spawnFailed, depthAtWait, buf, txAlive, sink, toSend, collected,
                           iter, source>>
       ELSE /\ iter' = "none"
            /\ WaitCall(x, "next")
            /\ UNCHANGED <<spawnFailed, depthAtWait, buf, txAlive, rxAlive, sink, toSend,
                           collected, source>>

\* The reactor resumes the coroutine of wakeup t, whose future has resolved
\* to o: the poll wrapper writes the slot, then run_child(context, Resume).
Wake(t, o) ==
    IF stack[t.co] # "alive" THEN Halt("Wrote the result slot of a freed stack")
    ELSE /\ slot' = [slot EXCEPT ![t.co] = PollWrite(o)]
         /\ reactor' = reactor \ {t}
         /\ driven' = TRUE
         /\ child' = [child EXCEPT ![Main] = 0]
         /\ resumed' = [resumed EXCEPT ![t.co] = @ + 1]
         /\ Exchange(Main, AtResume(t.co, waits[t.co]), t.context, Resume,
                     [pc EXCEPT ![Main] = "run_child"])
         /\ UNCHANGED <<CONTEXTS, myctx, stack, frees, freedOnIt, chan,
                        result, waitRet, waitingOn, waits, fut, alive,
                        flag, sentAfterWait, ended>>

\* The reactor polls the wakeup of a produce whose Send future is ready: the
\* item goes into the channel, or is lost with the error.
PollSend(t) ==
    /\ AtTop /\ alive
    /\ t \in reactor /\ t.fut = "send"
    /\ SendPoll(buf, rxAlive) # Pending
    /\ buf' = (IF SendPoll(buf, rxAlive).tag = "Ok"
               THEN Append(buf, Ok(Head(toSend))) ELSE buf)
    /\ toSend' = Tail(toSend)
    /\ Wake(t, SendPoll(buf, rxAlive))
    /\ UNCHANGED <<spawnFailed, depthAtWait, txAlive, rxAlive, sink, collected, iter, source>>

\* The reactor polls the wakeup of a next whose stream has an item, an
\* error or has ended.
PollNext(t) ==
    /\ AtTop /\ alive
    /\ t \in reactor /\ t.fut = "next"
    /\ IntoFuture(buf, txAlive) # Pending
    /\ buf' = (IF buf # <<>> THEN Tail(buf) ELSE buf)
    /\ Wake(t, IntoFuture(buf, txAlive))
    /\ UNCHANGED <<spawnFailed, depthAtWait, txAlive, rxAlive, sink, toSend, collected,
                   iter, source>>

\* wait returns inside produce (the sink is put back if the send went
\* through) or inside next (the stream is put back, the result is the
\* iterator's item).
StreamWaitReturn(x) ==
    /\ WaitReturn(x)
    /\ IF waitingOn[x] = "send"
       THEN /\ sink' = (IF WaitResult(SWITCH, slot[x]).tag = "OkOk"
                        THEN "some" ELSE sink)
            /\ UNCHANGED <<collected, iter>>
       ELSE /\ iter' = PutBack(WaitResult(SWITCH, slot[x]))
            /\ collected' = Append(collected, NextResult(WaitResult(SWITCH, slot[x])))
            /\ UNCHANGED sink
    /\ UNCHANGED <<spawnFailed, depthAtWait, buf, txAlive, rxAlive, toSend, source>>

\* A task returns: the producer after its last produce, which drops the
\* sender; the consumer at the end of the iteration or earlier, which drops
\* the receiver.
StreamReturn(x) ==
    /\ Return(x, 42)
    /\ (x = Producer) => toSend = <<>>
    /\ txAlive' = (IF x = Producer THEN FALSE ELSE txAlive)
    /\ sink' = (IF x = Producer THEN "none" ELSE sink)
    /\ rxAlive' = (IF x = Consumer THEN FALSE ELSE rxAlive)
    /\ UNCHANGED <<spawnFailed, depthAtWait, buf, toSend, collected, iter, source>>

StreamNext ==
    \/ \E x \in Ctx, c \in Co : Spawn(x, c) /\ UNCHANGED extVars
    \/ \E c \in Co : Entry(c) /\ UNCHANGED extVars
    \/ \E x \in Co : Store(x) /\ UNCHANGED extVars
    \/ \E x \in Co : Produce(x)
    \/ \E x \in Co : NextCall(x)
    \/ \E x \in Co : StreamWaitReturn(x)
    \/ \E x \in Co : StreamReturn(x)
    \/ \E x \in Co : Complete(x) /\ UNCHANGED extVars
    \/ \E x \in Co : Exit(x) /\ UNCHANGED extVars
    \/ \E x \in Ctx : RunChildReturn(x) /\ UNCHANGED extVars
    \/ \E t \in reactor : PollSend(t)
    \/ \E t \in reactor : PollNext(t)

\* A producer and a consumer coroutine over a stream, the reactor driven to
\* completion (Core::run).
StreamSpec == StreamInit /\ [][StreamNext]_vars

\* ------------------------------------------------- the join handle

JoinPollHidesPanic(ch) ==
    IF ch.tag = "Finished" THEN [tag |-> "Ready", val |-> ch.val]
    ELSE IF ch.tag = "Open" THEN [tag |-> "NotReady", val |-> 0]
    ELSE [tag |-> "Lost", val |-> 0]

\* CoroutineResult::poll: the receiver's state mapped onto the handle's.
JoinPoll(ch) ==
    IF ch.tag = "Panicked" THEN [tag |-> "Panicked", val |-> 0]
    ELSE IF ch.tag = "Finished" THEN [tag |-> "Ready", val |-> ch.val]
    ELSE IF ch.tag = "Open" THEN [tag |-> "NotReady", val |-> 0]
    ELSE [tag |-> "Lost", val |-> 0]

\* ------------------------------------------------- properties

UsageFaultMsg == "Can't wait outside of a coroutine"

\* The running context has been transferred into and has not yet taken the
\* message of that transfer.
InTransfer == pc[running] \in {"entry", "run_child", "wait"}

\* A coroutine is active: entered or resumed, and not suspended or exited.
Active(c) == pc[c] \in {"user", "run_child", "caught", "sent"}

\* C1 -- Mailbox framing: the mailbox holds a message exactly between a
\* transfer out and the paired transfer in (the resumed context has not yet
\* taken it) and is empty at every other point; put never finds the slot
\* occupied and get never finds it empty.
C1_MailboxFraming ==
    /\ fatal \notin {"Leftover switch instruction", "Missing switch instruction"}
    /\ (SWITCH.kind # "None") <=> InTransfer

\* A coroutine that the reactor resumed has spawned a nested child, and the
\* child's Destroy is in the mailbox on its way to that coroutine.
C1_Witness ==
    \E c \in Co : /\ running = c /\ pc[c] = "run_child" /\ resumed[c] = 1
                  /\ SWITCH.kind = "Destroy"

\* C2 -- Spawn is eager: whenever user code runs, no other coroutine is
\* created-but-not-entered or in the middle of its own code, and the
\* coroutine that the running code has just spawned has reached its first
\* wait or has completed, with the flag it stores first already set.
C2_SpawnEager ==
    \A x \in Ctx : InUser(x) =>
        /\ \A c \in Co \ {x} : pc[c] \notin {"entry", "user", "caught", "sent"}
        /\ child[x] # 0 => /\ pc[child[x]] \in {"wait", "dead"}
                           /\ flag[child[x]]

\* spawn has returned to the thread's code, the child sits in its first wait
\* with its flag set, and the reactor has not been driven.
C2_Witness ==
    /\ InUser(Main) /\ child[Main] = 1
    /\ pc[1] = "wait" /\ flag[1] /\ ~driven

\* C3 -- Synchronous nesting: when spawn returns and the spawned coroutine
\* has never called wait, the coroutine is finished and a poll of its join
\* handle is ready with the value it returned (or fails with Panicked if it
\* raised a fault), whoever the spawner is.
C3_SynchronousNesting ==
    \A x \in Ctx : (InUser(x) /\ child[x] # 0 /\ waits[child[x]] = 0) =>
        /\ pc[child[x]] = "dead"
        /\ ended[child[x]].tag = "Returned" =>
              JoinPoll(chan[child[x]]) = [tag |-> "Ready", val |-> ended[child[x]].val]
        /\ ended[child[x]].tag = "Faulted" =>
              JoinPoll(chan[child[x]]).tag = "Panicked"

\* Coroutine 1 has just spawned coroutine 2, which returned 42 without a
\* wait; the handle is ready and the reactor has not been driven.
C3_Witness ==
    /\ InUser(1) /\ child[1] = 2 /\ waits[2] = 0 /\ ~driven
    /\ JoinPoll(chan[2]) = [tag |-> "Ready", val |-> 42]

\* C4 -- Fault isolation: a fault of a task never becomes a fatal fault of
\* the thread; the coroutine that raised it reports Panicked on its join
\* handle, and every coroutine that returned a value reports that value.
C4_FaultIsolation ==
    /\ fatal \in {"none", UsageFaultMsg}
    /\ \A c \in Co : pc[c] \in {"sent", "dead"} =>
          /\ ended[c].tag = "Faulted" => JoinPoll(chan[c]).tag = "Panicked"
          /\ ended[c].tag = "Returned" =>
                JoinPoll(chan[c]) = [tag |-> "Ready", val |-> ended[c].val]

\* Coroutine 1 raised a fault after a resumption, its sibling returned 42
\* afterwards, and the thread's own code runs on.
C4_Witness ==
    /\ InUser(Main) /\ pc[1] = "dead" /\ pc[2] = "dead"
    /\ waits[1] = 1 /\ JoinPoll(chan[1]).tag = "Panicked"
    /\ JoinPoll(chan[2]) = [tag |-> "Ready", val |-> 42]

\* The wakeups of coroutine c that somebody holds: registered with the
\* reactor, or in the mailbox on the way to run_child.
Wakeups(c) ==
    Cardinality({t \in reactor : t.co = c})
      + (IF SWITCH.kind = "WaitFuture" /\ SWITCH.co = c THEN 1 ELSE 0)

C6_StackFreedOnce ==
    /\ fatal # "Wrote the result slot of a freed stack"
    /\ \A c \in Co :
          /\ frees[c] <= 1
          /\ (stack[c] = "freed") <=> (frees[c] = 1)
          /\ ~freedOnIt[c]
          /\ (stack[c] = "freed") => pc[c] = "dead"
          /\ (pc[c] \in {"entry", "user", "run_child", "wait", "caught", "sent"})
                => stack[c] = "alive"
          /\ (pc[c] = "dead" /\ stack[c] # "freed") =>
                (SWITCH = Destroy(c) /\ running # c /\ pc[running] = "run_child")

\* Coroutine 1's stack has been freed while coroutine 2 is suspended in a
\* wait on a stack that is alive.
C6_Witness ==
    /\ stack[1] = "freed" /\ frees[1] = 1 /\ pc[2] = "wait" /\ stack[2] = "alive"

\* The stacks of the records of the context stack.
RecordStacks == {CONTEXTS[i].stack : i \in 1..Len(CONTEXTS)}

\* C7 -- Depth of the context stack: the context stack holds one record per
\* active coroutine (entered or resumed, and not suspended or exited, its
\* record pushed by the trampoline or by wait and not popped by wait or by
\* the end of the task, also when the task ended in a fault).
C7_ContextDepth ==
    /\ Len(CONTEXTS) = Cardinality({c \in Co : Active(c)})
    /\ RecordStacks = {c \in Co : Active(c)}

\* Coroutine 1, resumed from a wait, has spawned coroutine 2, whose task
\* raised a fault and which has exited; one record is left.
C7_Witness ==
    /\ InUser(1) /\ waits[1] = 1 /\ child[1] = 2
    /\ pc[2] = "dead" /\ ended[2].tag = "Faulted" /\ Len(CONTEXTS) = 1

\* C8 -- wait outside a coroutine: a call of wait with an empty context
\* stack, whatever the future, ends in the fatal usage fault and changes
\* neither the mailbox nor the context stack, and transfers nowhere.
C8_WaitOutsideCoroutine ==
    [][((\E x \in Ctx, f \in Futs : Wait(x, f)) /\ CONTEXTS = <<>>) =>
           /\ fatal' = UsageFaultMsg
           /\ SWITCH' = SWITCH /\ SWITCH = NoSwitch
           /\ CONTEXTS' = CONTEXTS
           /\ running' = running /\ pc' = pc /\ reactor' = reactor]_vars

\* The thread's own code has called wait while a coroutine is suspended: the
\* usage fault, the mailbox and the context stack empty.
C8_Witness ==
    /\ fatal = UsageFaultMsg /\ running = Main /\ CONTEXTS = <<>>
    /\ SWITCH = NoSwitch /\ pc[1] = "wait"

\* What wait returns for the outcome o of the future: Ok(Ok(v)) or Ok(Err(e)).
OkOf(o) == [tag |-> IF o.tag = "Ok" THEN "OkOk" ELSE "OkErr", val |-> o.val]

\* C9 -- wait returns the future's outcome: a wait that is resumed with
\* Resume returns to the task Ok of exactly what the awaited future resolved
\* to, its value or its error; a coroutine that returned the value of its
\* wait on the one-shot reports on its join handle the value that was sent.
C9_WaitReturnsOutcome ==
    /\ [][\A x \in Co : (WaitReturn(x) /\ SWITCH.kind = "Resume") =>
             /\ fut[waitingOn[x]] # Pending
             /\ pc'[x] = "user"
             /\ waitRet'[x] = OkOf(fut[waitingOn[x]])]_vars
    /\ [](\A x \in Co :
             (pc[x] \in {"sent", "dead"} /\ ended[x].tag = "Returned"
                /\ ended[x].val \in SendVals) =>
                  /\ fut["oneshot"] = Ok(ended[x].val)
                  /\ JoinPoll(chan[x]) = [tag |-> "Ready", val |-> ended[x].val])

\* Coroutine 1 waited once, coroutine 2 sent 12 on the one-shot after its
\* own wait, and coroutine 1's join handle yields 12.
C9_Witness ==
    /\ AtTop /\ driven /\ sentAfterWait /\ waits[1] = 1 /\ waits[2] = 1
    /\ JoinPoll(chan[1]) = [tag |-> "Ready", val |-> 12]

Built(c) ==
    IF ended[c].tag = "Faulted" THEN Panicked ELSE Finished(ended[c].val)

\* C11 -- One delivery, before the pop: until its send a coroutine's channel
\* is empty; from the send on it holds the TaskResult the task built and
\* never changes again; the send happens while the coroutine's record is
\* still on top of the context stack and the mailbox is empty, and a Destroy
\* message is only ever in the mailbox for a coroutine whose result is in
\* its channel.
C11_DeliveredOnceBeforePop ==
    /\ [](\A c \in Co :
            /\ (pc[c] \in {"entry", "user", "run_child", "wait", "caught"})
                  => chan[c] = Open
            /\ (pc[c] \in {"sent", "dead"}) => chan[c] = Built(c)
            /\ (pc[c] = "sent") =>
                  (SWITCH = NoSwitch /\ CONTEXTS # <<>> /\ Last(CONTEXTS).stack = c)
            /\ (SWITCH = Destroy(c)) => chan[c] = Built(c))
    /\ [][\A c \in Co :
            /\ (chan[c].tag \in {"Finished", "Panicked"}) => chan'[c] = chan[c]
            /\ Complete(c) =>
                  /\ chan[c] = Open /\ chan'[c] = result[c]
                  /\ CONTEXTS' = CONTEXTS /\ Last(CONTEXTS).stack = c
                  /\ SWITCH' = NoSwitch]_vars

\* Coroutine 2, spawned by coroutine 1, has sent Finished(42) and has not
\* yet popped its record, which lies above coroutine 1's.
C11_Witness ==
    /\ running = 2 /\ pc[2] = "sent" /\ chan[2] = Finished(42)
    /\ Len(CONTEXTS) = 2 /\ SWITCH = NoSwitch

C13_JoinHandlePoll ==
    /\ JoinPoll(Open) = [tag |-> "NotReady", val |-> 0]
    /\ \A v \in RetVals \cup SendVals :
          JoinPoll(Finished(v)) = [tag |-> "Ready", val |-> v]
    /\ JoinPoll(Panicked) = [tag |-> "Panicked", val |-> 0]
    /\ JoinPoll(SenderGone) = [tag |-> "Lost", val |-> 0]
    /\ \A c \in Co : (pc[c] # "unborn") =>
          /\ (JoinPoll(chan[c]).tag = "NotReady")
                <=> (pc[c] \in {"entry", "user", "run_child", "wait", "caught"})
          /\ (JoinPoll(chan[c]).tag = "Ready") =>
                (ended[c].tag = "Returned" /\ JoinPoll(chan[c]).val = ended[c].val)
          /\ (JoinPoll(chan[c]).tag = "Panicked") => ended[c].tag = "Faulted"
          /\ (pc[c] \in {"sent", "dead"}) =>
                JoinPoll(chan[c]).tag =
                    (IF ended[c].tag = "Faulted" THEN "Panicked" ELSE "Ready")

\* One handle reports Panicked while the other coroutine, suspended in a
\* wait, reports not ready.
C13_Witness ==
    /\ AtTop /\ JoinPoll(chan[1]).tag = "Panicked" /\ pc[1] = "dead"
    /\ JoinPoll(chan[2]).tag = "NotReady" /\ pc[2] = "wait"

\* C15 -- One task at a time: only the running context is inside task code;
\* every other context stands at a transfer (not entered, blocked inside
\* spawn or the reactor, suspended in a wait, or exited); a coroutine that
\* is blocked inside spawn waits for the child it is spawning, which is in
\* its first stretch; and the running context changes only by a transfer
\* that carries a message.
C15_OneTaskAtATime ==
    /\ [](/\ \A c \in Co : (pc[c] \in {"user", "caught", "sent"}) => running = c
          /\ \A x \in Ctx \ {running} :
                pc[x] \in {"unborn", "entry", "run_child", "wait", "dead"}
          /\ \A c \in Co : (pc[c] = "run_child" /\ running # c) =>
                /\ child[c] \in Co /\ waits[child[c]] = 0
                /\ pc[child[c]] \in {"entry", "user", "caught", "sent", "run_child"}
                /\ c \in RecordStacks)
    /\ [][(running' # running) =>
             /\ SWITCH = NoSwitch /\ SWITCH' # NoSwitch
             /\ pc[running] \in {"top", "user", "sent"}
             /\ pc'[running] \in {"run_child", "wait", "dead"}]_vars

\* Coroutine 1, resumed by the reactor, is blocked inside spawn while its
\* child, coroutine 2, runs its task.
C15_Witness ==
    /\ running = 2 /\ pc[2] = "user" /\ flag[2]
    /\ pc[1] = "run_child" /\ child[1] = 2 /\ waits[1] = 1
    /\ pc[Main] = "run_child"

\* C19 -- yield_now, a wait on a future that has resolved: the call
\* transfers out once with the wait request in the mailbox; the suspended
\* coroutine's wakeup is held by the reactor and can be polled whenever a
\* live reactor is driven; the coroutine is resumed once, with Resume, and
\* the call returns Ok of the future's value to the task, which goes on.
C19_YieldNow ==
    /\ [](\A c \in Co :
            (pc[c] = "wait" /\ waitingOn[c] = "ready" /\ AtTop /\ alive) =>
               \E t \in reactor :
                  /\ t.co = c /\ t.fut = "ready" /\ fut["ready"] # Pending
                  /\ stack[c] = "alive"
                  /\ ExchangeFault(t.context, [pc EXCEPT ![Main] = "run_child"]) = "none")
    /\ [][\A x \in Co :
            /\ Wait(x, "ready") =>
                  /\ pc'[x] = "wait" /\ running' # x
                  /\ SWITCH' = WaitFuture(x, "ready")
                  /\ waits'[x] = waits[x] + 1 /\ resumed'[x] = 0
            /\ (WaitReturn(x) /\ waitingOn[x] = "ready" /\ alive) =>
                  /\ SWITCH = Resume /\ resumed[x] = 1
                  /\ waitRet'[x] = [tag |-> "OkOk", val |-> 0]
                  /\ pc'[x] = "user"]_vars

\* With the reactor alive and no other future resolved, coroutine 1 has
\* yielded MaxWaits times and finished; its join handle is ready.
C19_Witness ==
    /\ alive /\ fut["oneshot"] = Pending /\ fut["timer"] = Pending
    /\ waits[1] = MaxWaits /\ pc[1] = "dead"
    /\ JoinPoll(chan[1]) = [tag |-> "Ready", val |-> 42]

\* C20 -- Resume only after the write: a suspended coroutine's slot is
\* empty; a transfer into a suspended coroutine consumes a wakeup of that
\* coroutine and is either Resume, by a live reactor once the awaited future
\* (a timer: once it has fired) has resolved, or Cleanup by a dead reactor;
\* when the coroutine finds Resume its slot holds the outcome of the future.
C20_ResumeAfterWrite ==
    /\ [](\A c \in Co :
            /\ (pc[c] = "wait" /\ running # c) => slot[c] = NoneVal
            /\ (pc[c] = "wait" /\ running = c /\ SWITCH.kind = "Resume") =>
                  /\ fut[waitingOn[c]] # Pending
                  /\ slot[c] # NoneVal
                  /\ slot[c] = PollWrite(fut[waitingOn[c]]))
    /\ [][\A c \in Co : (pc[c] = "wait" /\ running # c /\ running' = c) =>
            /\ \E t \in reactor : t.co = c /\ t.fut = waitingOn[c] /\ t \notin reactor'
            /\ \/ SWITCH' = Resume /\ alive /\ fut[waitingOn[c]] # Pending
               \/ SWITCH' = Cleanup /\ ~alive]_vars

\* Coroutine 1 is resumed with Resume after the timer it waits on has
\* fired, while coroutine 2 stays suspended on the one-shot nobody has sent.
C20_Witness ==
    /\ running = 1 /\ pc[1] = "wait" /\ SWITCH = Resume
    /\ waitingOn[1] = "timer" /\ fut["timer"] # Pending /\ slot[1] = Ok(0)
    /\ pc[2] = "wait" /\ waitingOn[2] = "oneshot" /\ fut["oneshot"] = Pending

\* C14 -- A failed stack allocation has no side effects: a spawn that
\* returns StackError starts no task, creates no channel, stack or context,
\* transfers nowhere, and leaves the mailbox empty and the context stack,
\* the reactor and every coroutine as they were.
C14_StackErrorNoEffect ==
    [][\A x \in Ctx : SpawnStackError(x) =>
          /\ spawnFailed'
          /\ SWITCH = NoSwitch /\ SWITCH' = NoSwitch
          /\ CONTEXTS' = CONTEXTS /\ running' = running /\ xfer' = xfer
          /\ pc' = pc /\ cont' = cont /\ flag' = flag
          /\ stack' = stack /\ chan' = chan /\ reactor' = reactor
          /\ fatal' = "none"]_vars

\* A spawn by coroutine 1 has failed: coroutine 2 was never created and
\* coroutine 1 runs on with its record alone on the context stack.
C14_Witness ==
    /\ spawnFailed /\ InUser(1) /\ pc[2] = "unborn" /\ stack[2] = "none"
    /\ chan[2] = NoneVal /\ SWITCH = NoSwitch /\ Len(CONTEXTS) = 1

\* C16 -- A coroutine does not depend on its join handle: with the handle
\* dropped the task still runs and ends, the failed send changes nothing and
\* is no fault, the record is popped and Destroy put exactly as otherwise,
\* and the stack is freed once by the receiver of Destroy; the context stack
\* keeps one record per active coroutine and no fatal fault but the usage
\* fault of wait is reachable.
C16_RunsWithoutHandle ==
    /\ [](/\ fatal \in {"none", UsageFaultMsg}
          /\ Len(CONTEXTS) = Cardinality({c \in Co : Active(c)})
          /\ \A c \in Co : (chan[c] = Closed) =>
                /\ frees[c] <= 1 /\ ~freedOnIt[c]
                /\ (stack[c] = "freed") <=> (frees[c] = 1)
                /\ (stack[c] = "freed") => pc[c] = "dead"
                /\ (pc[c] = "dead" /\ stack[c] # "freed") =>
                      (SWITCH = Destroy(c) /\ running # c /\ pc[running] = "run_child")
                /\ (pc[c] \in {"caught", "sent", "dead"}) => ended[c] # NoneVal)
    /\ [][\A x \in Co : (chan[x] = Closed) =>
            /\ Complete(x) => (chan'[x] = Closed /\ pc'[x] = "sent" /\ fatal' = "none")
            /\ Exit(x) => /\ CONTEXTS' = Front(CONTEXTS) /\ Last(CONTEXTS).stack = x
                          /\ SWITCH' = Destroy(x) /\ pc'[x] = "dead"
                          /\ running' # x /\ fatal' = "none"]_vars

\* Coroutine 1, whose handle was dropped while it was suspended, has been
\* resumed, has returned and exited, and its stack has been freed.
C16_Witness ==
    /\ chan[1] = Closed /\ waits[1] = 1 /\ flag[1]
    /\ ended[1] = [tag |-> "Returned", val |-> 42]
    /\ pc[1] = "dead" /\ stack[1] = "freed" /\ frees[1] = 1 /\ AtTop

\* The stream items behind what the iterator has returned.
ItemOf(r) == IF r.tag = "SomeOk" THEN Ok(r.val) ELSE Err(r.val)
AsItems(col) ==
    LET some == SelectSeq(col, LAMBDA r : r.tag # "None")
    IN  [i \in 1..Len(some) |-> ItemOf(some[i])]

\* The item that has left the stream and lies in the consumer's result slot.
InSlot ==
    IF pc[Consumer] = "wait" /\ slot[Consumer] # NoneVal /\ slot[Consumer] # Ok(0)
    THEN <<slot[Consumer]>> ELSE <<>>

\* Everything the stream was to carry, in order: what the consumer has got,
\* what is on its way to it, and what the producer has still to send.
InOrder == AsItems(collected) \o InSlot \o buf \o OkAll(toSend)

\* C17 -- Backpressured sequence: over the channel of capacity 1 the items
\* reach the consumer in the order they were produced, none lost and none
\* twice, while the consumer iterates; the buffer never holds more than its
\* capacity, the producer is resumed from a produce only by a poll that
\* found room in the buffer (the consumer has taken the item before), and a
\* consumer that iterates to the end has collected 42 then 12.
C17_BackpressuredSequence ==
    /\ [](source.kind = "channel" =>
            /\ Len(buf) <= Cap
            /\ (rxAlive \/ IterEnded) => InOrder = source.items
            /\ IterEnded =>
                  /\ collected = <<[tag |-> "SomeOk", val |-> 42],
                                   [tag |-> "SomeOk", val |-> 12],
                                   [tag |-> "None", val |-> 0]>>
                  /\ buf = <<>> /\ toSend = <<>> /\ ~txAlive)
    /\ [][(source.kind = "channel" /\ pc[Producer] = "wait"
             /\ resumed'[Producer] # resumed[Producer] /\ rxAlive) =>
               /\ Len(buf) < Cap
               /\ buf' = Append(buf, Ok(Head(toSend)))
               /\ slot'[Producer] = Ok(0)]_vars

\* Both tasks have finished, the consumer after it collected 42, 12 and the
\* end of the stream, each produce and each next in a wait of its own.
C17_Witness ==
    /\ source.kind = "channel" /\ IterEnded /\ Len(collected) = 3
    /\ waits[Producer] = 2 /\ waits[Consumer] = 3
    /\ pc[Producer] = "dead" /\ pc[Consumer] = "dead" /\ AtTop

\* C18 -- Stream iteration: every call of next is one wait and gives one
\* result; the results are the items and the errors of the stream in stream
\* order; None comes last and only when the stream has ended; after every
\* step, also one that gave an error, the stream is back in the iterator and
\* the task has not faulted.
C18_StreamIteration ==
    /\ [](/\ Len(collected) =
                waits[Consumer] - (IF pc[Consumer] = "wait" THEN 1 ELSE 0)
          /\ \A i \in 1..(Len(collected) - 1) : collected[i].tag # "None"
          /\ (source.kind = "list") =>
                AsItems(collected) \o InSlot \o buf = source.items
          /\ IterEnded =>
                (buf = <<>> /\ ~txAlive /\ AsItems(collected) = source.items)
          /\ InUser(Consumer) => iter = "some"
          /\ ended[Consumer].tag # "Faulted")
    /\ [][/\ \A x \in Co : NextCall(x) =>
                (waits'[x] = waits[x] + 1 /\ pc'[x] = "wait" /\ iter' = "none")
          /\ \A t \in reactor : PollNext(t) =>
                /\ (slot'[t.co] = Ok(0)) <=> (buf = <<>>)
                /\ (buf # <<>>) => (slot'[t.co] = Head(buf) /\ buf' = Tail(buf))
          /\ \A x \in Co : (StreamWaitReturn(x) /\ waitingOn[x] = "next") =>
                /\ collected' = Append(collected,
                       IF slot[x] = Ok(0) THEN [tag |-> "None", val |-> 0]
                       ELSE [tag |-> IF slot[x].tag = "Ok" THEN "SomeOk" ELSE "SomeErr",
                             val |-> slot[x].val])
                /\ iter' = "some" /\ pc'[x] = "user"]_vars

\* The stream of an item, an error and an item has been iterated to its
\* end in four waits: the error did not end the iteration.
C18_Witness ==
    /\ source = [kind |-> "list", items |-> <<Ok(1), Err(7), Ok(1)>>]
    /\ collected = <<[tag |-> "SomeOk", val |-> 1], [tag |-> "SomeErr", val |-> 7],
                     [tag |-> "SomeOk", val |-> 1], [tag |-> "None", val |-> 0]>>
    /\ waits[Consumer] = 4 /\ InUser(Consumer)

\* The producer is suspended in its second produce while the channel is full.
ProducerBlocked ==
    /\ pc[Producer] = "wait" /\ waitingOn[Producer] = "send" /\ AtTop
    /\ buf = <<Ok(42)>> /\ toSend = <<12>> /\ rxAlive

\* C21 -- The poll wrapper is the sole writer of the slot: a wakeup is held
\* only for a coroutine that is suspended in the wait the wakeup belongs to,
\* not yet resumed, with an empty slot on a stack that is alive; a value is
\* written into a slot only by the reactor's poll of such a wakeup, which
\* gives the wakeup up and resumes the coroutine, so a slot is written at
\* most once and never after a Resume or a Cleanup or on a freed stack; the
\* only other change of a slot is the wait's own emptying of it.
C21_SoleWriter ==
    /\ [](/\ fatal # "Wrote the result slot of a freed stack"
          /\ \A t \in reactor :
                /\ pc[t.co] = "wait" /\ running # t.co /\ resumed[t.co] = 0
                /\ t.fut = waitingOn[t.co]
                /\ slot[t.co] = NoneVal /\ stack[t.co] = "alive"
          /\ \A c \in Co : (pc[c] = "wait") => stack[c] = "alive"
          /\ \A c \in Co : (slot[c] # NoneVal) =>
                (pc[c] = "wait" /\ running = c /\ SWITCH = Resume))
    /\ [][\A c \in Co : (slot'[c] # slot[c]) =>
            \/ /\ running = c /\ slot'[c] = NoneVal
            \/ /\ AtTop /\ alive /\ pc[c] = "wait" /\ resumed[c] = 0
               /\ slot[c] = NoneVal /\ stack[c] = "alive" /\ stack'[c] = "alive"
               /\ \E t \in reactor :
                     /\ t.co = c /\ t \notin reactor'
                     /\ fut[t.fut] # Pending
                     /\ slot'[c] = PollWrite(fut[t.fut])
               /\ running' = c /\ SWITCH' = Resume]_vars

\* The poll wrapper has written the error of the canceled one-shot into the
\* slot of coroutine 1's second wait, after coroutine 2's stack was freed.
C21_Witness ==
    /\ running = 1 /\ pc[1] = "wait" /\ waits[1] = 2 /\ slot[1] = Canceled
    /\ SWITCH = Resume /\ stack[2] = "freed" /\ reactor = {}

\* The context p is blocked at the point where it transferred into
\* coroutine x: inside the spawn of x, or inside the reactor's resumption of
\* x from its latest wait.
BlockedOn(p, x) ==
    /\ p.id \in Ctx /\ p.id # x
    /\ pc[p.id] = "run_child" /\ cont[p.id] = p.at
    /\ p.at \in {AtSpawn(x), AtResume(x, waits[x])}

\* C22 -- The top record is the caller's: whenever a coroutine executes its
\* task or the end of its trampoline, at any nesting of spawns and after any
\* resumptions, the last record of the context stack holds that coroutine's
\* stack and handle and, as parent, the context that transferred into it and
\* is blocked there; so reactor() gives the caller's handle, the pop of wait
\* takes the caller's record and suspends to that parent, and the pop at the
\* exit takes the caller's record and sends its own stack in Destroy to that
\* parent.  Called by the thread's own code, reactor() finds no record.
C22_TopRecordIsCallers ==
    /\ [](/\ \A x \in Co : (running = x /\ pc[x] \in {"user", "caught", "sent"}) =>
                /\ CONTEXTS # <<>>
                /\ TopRecord(CONTEXTS).stack = x
                /\ ReactorHandle(CONTEXTS) = [fault |-> "none", handle |-> x]
                /\ BlockedOn(TopRecord(CONTEXTS).parent, x)
          /\ AtTop => ReactorHandle(CONTEXTS).fault # "none")
    /\ [][\A x \in Co :
            /\ (\E f \in Futs : Wait(x, f)) =>
                  /\ myctx'[x].stack = x
                  /\ CONTEXTS' = Front(CONTEXTS)
                  /\ running' = Last(CONTEXTS).parent.id
                  /\ fatal' = "none"
            /\ Exit(x) =>
                  /\ SWITCH' = Destroy(x)
                  /\ CONTEXTS' = Front(CONTEXTS)
                  /\ running' = Last(CONTEXTS).parent.id
                  /\ fatal' = "none"]_vars

\* Coroutine 2, spawned by coroutine 1 after coroutine 1 was resumed from a
\* wait, runs its task: its record lies on top of coroutine 1's.
C22_Witness ==
    /\ InUser(2) /\ flag[2] /\ waits[1] = 1 /\ pc[1] = "run_child"
    /\ Len(CONTEXTS) = 2 /\ CONTEXTS[1].stack = 1 /\ CONTEXTS[2].stack = 2
    /\ CONTEXTS[2].parent.id = 1 /\ CONTEXTS[1].parent.id = Main

\* C23 as stated -- when wait returns, the depth of the context stack is
\* the depth it had when wait was called.
C23_DepthAsBefore ==
    [][\A x \in Co : WaitReturn(x) => Len(CONTEXTS') = depthAtWait[x]]_vars

\* C23 -- The record is pushed back: when wait returns, with Ok(outcome) on
\* Resume and with Err(Dropped) on Cleanup alike, the caller's record, with
\* its own stack and the resumer as parent, has been pushed on top of the
\* context stack, which is one deeper than at the resumption and again holds
\* one record per active coroutine; the depth is the depth at the call
\* exactly when as many coroutines are active below the caller at the
\* resumption as were at the call, as for a caller that was alone on the
\* context stack and is resumed by the thread's own code; and at the end of
\* its task, after any number of waits, the caller's own record is the
\* one the trampoline pops.
C23_RecordPushedBack ==
    /\ [][\A x \in Co : WaitReturn(x) =>
            /\ SWITCH.kind \in {"Resume", "Cleanup"}
            /\ waitRet'[x].tag \in
                  (IF SWITCH.kind = "Resume" THEN {"OkOk", "OkErr"} ELSE {"Dropped"})
            /\ CONTEXTS' = Append(CONTEXTS, Record(x, xfer))
            /\ Len(CONTEXTS') = Cardinality({c \in Co : Active(c)'})
            /\ (Len(CONTEXTS') = depthAtWait[x])
                  <=> (Len(CONTEXTS) = depthAtWait[x] - 1)
            /\ (depthAtWait[x] = 1 /\ cont[Main] = xfer.at /\ xfer.id = Main)
                  => Len(CONTEXTS') = depthAtWait[x]]_vars
    /\ [](\A x \in Co : (pc[x] \in {"caught", "sent"}) =>
             (CONTEXTS # <<>> /\ Last(CONTEXTS).stack = x))
    /\ [][\A x \in Co : Exit(x) =>
             (Last(CONTEXTS).stack = x /\ SWITCH' = Destroy(x)
                /\ CONTEXTS' = Front(CONTEXTS))]_vars

\* Coroutine 2 called wait below coroutine 1's spawn, at depth 2, and was
\* resumed with Cleanup by the thread's own code after the shutdown: its
\* record is back, alone on the context stack.
C23_Witness ==
    /\ ~alive /\ InUser(2) /\ waitRet[2] = Dropped /\ depthAtWait[2] = 2
    /\ CONTEXTS = <<Record(2, CtxVal(Main, AtResume(2, 1)))>>

\* The fatal faults of a message that its receiver does not expect.
ProtocolFaults ==
    {"Invalid switch instruction on coroutine entry",
     "Invalid switch instruction when switching out",
     "Invalid instruction on wakeup",
     "Missing switch instruction", "Leftover switch instruction"}

\* C24 -- Every message is valid for its receiver: a context that has been
\* transferred into and has not yet taken the message finds StartTask with
\* its own stack at the entry of a coroutine, Destroy or a wait request of
\* the coroutine it transferred into in run_child, and Resume or Cleanup in
\* a woken wait; every step that takes a message leaves the mailbox empty
\* and raises no fatal fault, and no protocol-violation fault is reachable.
C24_ValidMessages ==
    /\ [](/\ fatal \notin ProtocolFaults
          /\ \A x \in Ctx : (running = x /\ fatal = "none") =>
                /\ (pc[x] = "entry") => SWITCH = StartTask(x)
                /\ (pc[x] = "run_child") =>
                      \/ SWITCH.kind = "Destroy" /\ SWITCH.stack = xfer.id
                      \/ SWITCH.kind = "WaitFuture" /\ SWITCH.co = xfer.id
                /\ (pc[x] = "wait") => SWITCH \in {Resume, Cleanup})
    /\ [][/\ \A c \in Co : Entry(c) => (SWITCH.kind = "StartTask" /\ fatal' = "none")
          /\ \A x \in Ctx : RunChildReturn(x) =>
                (SWITCH.kind \in {"Destroy", "WaitFuture"} /\ fatal' = "none")
          /\ \A x \in Co : WaitReturn(x) =>
                (SWITCH.kind \in {"Resume", "Cleanup"} /\ fatal' = "none")
          /\ ((\E c \in Co : Entry(c)) \/ (\E x \in Ctx : RunChildReturn(x))
                \/ (\E x \in Co : WaitReturn(x))) => SWITCH' = NoSwitch]_vars

\* Coroutine 2 is woken with Cleanup in its second wait, after coroutine 1
\* has exited and its Destroy was taken.
C24_Witness ==
    /\ running = 2 /\ pc[2] = "wait" /\ waits[2] = 2 /\ SWITCH = Cleanup
    /\ pc[1] = "dead" /\ stack[1] = "freed" /\ pc[Main] = "run_child"

\* Somebody holds a context value of coroutine c: the transfer in flight, a
\* record of the context stack as its parent, or a wakeup of the reactor.
Held(c) ==
    \/ xfer.id = c
    \/ \E i \in 1..Len(CONTEXTS) : CONTEXTS[i].parent.id = c
    \/ \E t \in reactor : t.co = c \/ t.context.id = c

\* C25 -- A finished coroutine is never resumed: once a coroutine has made
\* its final transfer it never runs again and stays finished; the only
\* context value of it that is left is the one the final transfer hands to
\* the receiver of Destroy, which drops it; no wakeup of it is registered,
\* also when it finished after a resumption with Cleanup; so nothing can
\* transfer into it, and neither "Woken up after termination!" nor a
\* transfer into a stale context is reachable.
C25_NeverResumedAfterExit ==
    /\ [](/\ fatal \notin {"Woken up after termination!", "Resumed a stale context"}
          /\ \A c \in Co : (pc[c] = "dead") =>
                /\ running # c
                /\ cont[c] = AtExit
                /\ Held(c) => (xfer = CtxVal(c, AtExit) /\ SWITCH = Destroy(c)
                                 /\ pc[running] = "run_child"))
    /\ [][\A c \in Co : (pc[c] = "dead") =>
             (pc'[c] = "dead" /\ running' # c /\ cont'[c] = cont[c])]_vars

\* The dead reactor has dropped the wakeup of coroutine 1's wait, coroutine 1
\* has run to its end, and its Destroy is back in the thread's own code.
C25_Witness ==
    /\ ~alive /\ running = Main /\ pc[Main] = "run_child"
    /\ cont[Main] = AtResume(1, 1) /\ pc[1] = "dead" /\ SWITCH = Destroy(1)
    /\ xfer = CtxVal(1, AtExit)

\* The parent a record of coroutine c must hold: the context blocked in the
\* spawn of c while c has not waited, the context blocked in the latest
\* resumption of c afterwards.
Resumer(c) == IF waits[c] = 0 THEN AtSpawn(c) ELSE AtResume(c, waits[c])

\* C26 -- The parent is the latest resumer: a wait that is transferred back
\* into stores, as the parent of the record it pushes, the context that the
\* transfer came from; every record of the context stack holds as parent the
\* point at which its coroutine was last transferred into; so the wait and
\* the exit of a coroutine that has been resumed transfer to the context
\* that is blocked in that resumption, not to the spawner, and no transfer
\* ever goes to a context that has moved on (a stale context).
C26_ParentIsLatestResumer ==
    /\ [](/\ fatal # "Resumed a stale context"
          /\ \A i \in 1..Len(CONTEXTS) :
                /\ CONTEXTS[i].parent.at = Resumer(CONTEXTS[i].stack)
                /\ cont[CONTEXTS[i].parent.id] = CONTEXTS[i].parent.at
                /\ pc[CONTEXTS[i].parent.id] = "run_child")
    /\ [][\A x \in Co :
            /\ WaitReturn(x) =>
                  /\ xfer.at = AtResume(x, waits[x])
                  /\ Last(CONTEXTS').parent = xfer
                  /\ Last(CONTEXTS').stack = x
            /\ (((\E f \in Futs : Wait(x, f)) \/ Exit(x)) /\ waits[x] > 0) =>
                  /\ Last(CONTEXTS).parent.at = AtResume(x, waits[x])
                  /\ Last(CONTEXTS).parent.at # AtSpawn(x)
                  /\ running' = Last(CONTEXTS).parent.id
                  /\ cont[running'] = AtResume(x, waits[x])
                  /\ fatal' = "none"]_vars

\* Coroutine 2, spawned by coroutine 1 and suspended inside that spawn, was
\* resumed by the thread's own code and has exited: its Destroy arrives in
\* the thread's own code while the spawner, coroutine 1, is suspended.
C26_Witness ==
    /\ running = Main /\ pc[Main] = "run_child" /\ SWITCH = Destroy(2)
    /\ cont[Main] = AtResume(2, 1) /\ depthAtWait[2] = 2 /\ pc[1] = "wait"

\* The future that suspended coroutine c waits on has resolved.
Resolved(c) == waitingOn[c] \in Futs /\ fut[waitingOn[c]] # Pending

\* Coroutine c has finished for good: exited, its result sent, its stack
\* freed, its join handle ready or failed with the fault.
Done(c) ==
    /\ pc[c] = "dead" /\ stack[c] = "freed" /\ chan[c] = Built(c)
    /\ JoinPoll(chan[c]).tag = (IF ended[c].tag = "Faulted" THEN "Panicked" ELSE "Ready")

\* C27 -- Liveness: if the reactor is never shut down, the thread's own code
\* never ends in the fatal usage fault, and every future that a suspended
\* coroutine waits on eventually resolves, then every coroutine that was
\* spawned eventually has exited, with its result sent, its stack freed and
\* its join handle ready or failed.
C27_EveryCoroutineFinishes ==
    ([]alive /\ [](fatal = "none")
        /\ \A c \in Co : ((pc[c] = "wait") ~> (pc[c] # "wait" \/ Resolved(c))))
      => \A c \in Co : ((pc[c] # "unborn") ~> Done(c))

\* Under a live reactor both coroutines have waited twice, the timer has
\* fired and the one-shot was sent, and both have finished with their
\* stacks freed and their handles ready.
C27_Witness ==
    /\ alive /\ fatal = "none" /\ AtTop /\ reactor = {}
    /\ fut["timer"] # Pending /\ fut["oneshot"] = Ok(12)
    /\ \A c \in Co : Done(c) /\ waits[c] = MaxWaits /\ ended[c].tag = "Returned"

\* A send of the producer is in flight: produce has taken the sink and its
\* wait has not returned.
InFlight == pc[Producer] = "wait" /\ waitingOn[Producer] = "send"

\* The producer task has not ended and is without its sink outside of a
\* send.
SinkLost ==
    /\ sink = "none" /\ ~InFlight
    /\ pc[Producer] \in {"unborn", "entry", "user", "run_child", "wait"}

\* C28 -- The producer after a failed send: the producer task comes to be
\* without its sink outside of a send only by the return of a wait whose
\* send failed, which happens only with the receiver gone and is no fault of
\* the task; from then on it stays without the sink until it ends; a produce
\* without a sink returns at once: no wait, no transfer, nothing sent,
\* nothing registered, no fault, the item gone; a produce with the sink
\* takes it and waits, and a send that succeeds puts it back; so while the
\* task runs it holds the sink exactly when no send is in flight and none
\* has failed.
C28_ProducerAfterFailedSend ==
    /\ [](source.kind = "channel" =>
            /\ InFlight => sink = "none"
            /\ SinkLost => ~rxAlive
            /\ ended[Producer].tag # "Faulted")
    /\ [][(source.kind = "channel") =>
          /\ (SinkLost' /\ ~SinkLost) =>
                /\ StreamWaitReturn(Producer) /\ waitingOn[Producer] = "send"
                /\ slot[Producer].tag = "Err" /\ ~rxAlive
          /\ SinkLost => (sink' = "none" /\ (SinkLost' \/ pc'[Producer] = "caught"))
          /\ (Produce(Producer) /\ sink = "none") =>
                /\ SinkLost
                /\ toSend' = Tail(toSend) /\ sink' = "none" /\ buf' = buf
                /\ pc' = pc /\ running' = running /\ waits' = waits
                /\ SWITCH' = SWITCH /\ CONTEXTS' = CONTEXTS
                /\ reactor' = reactor /\ ended' = ended /\ fatal' = "none"
          /\ (Produce(Producer) /\ sink = "some") =>
                (sink' = "none" /\ InFlight' /\ waits'[Producer] = waits[Producer] + 1)
          /\ (StreamWaitReturn(Producer) /\ waitingOn[Producer] = "send") =>
                /\ pc'[Producer] = "user" /\ ended' = ended /\ fatal' = "none"
                /\ waitRet'[Producer].tag = (IF slot[Producer].tag = "Ok" THEN "OkOk" ELSE "OkErr")
                /\ (slot[Producer].tag = "Err") => (SinkLost' /\ buf' = buf)
                /\ (slot[Producer].tag = "Ok") => (sink' = "some" /\ ~SinkLost')]_vars

\* The consumer returned before the first send was polled: the send failed,
\* the second produce returned at once, and the producer task runs on with
\* one wait, no sink and nothing in the channel.
C28_Witness ==
    /\ source.kind = "channel" /\ InUser(Producer) /\ SinkLost
    /\ waitRet[Producer] = [tag |-> "OkErr", val |-> 0]
    /\ toSend = <<>> /\ waits[Producer] = 1
    /\ ~rxAlive /\ buf = <<>> /\ collected = <<>>

====
